---- MODULE Spec2Model ----
(***************************************************************************)
(* Model of pr-retry (src/index.js): the `retrier` entry point, the policy  *)
(* resolver at its head, the recursive subject_caller chain, and the        *)
(* built-in constant_timer_retry policy with its closed-over counter.       *)
(***************************************************************************)
EXTENDS Integers, Sequences, FiniteSets, TLC

(***************************************************************************)
(* Bounds of the model.                                                     *)
(***************************************************************************)
\* Largest whole retry count a caller passes.
MaxN == 3
\* Subject invocations one run may make before the model stops following it
\* (must exceed MaxN + 1 so that a run limited by its policy is told apart
\* from a run limited by the model).
MaxAttempts == 5
\* Closures a caller makes by calling constant_timer_retry directly.
MaxInst == 1

\* The calls of retrier that may be in progress side by side.
Runs == {"A", "B"}

\* Failure reasons and success values a subject may produce.
Reasons == {"e1", "e2"}
Values == {"v1", "v2"}
\* A reason a caller-supplied decision function may substitute on abort.
CustomReasons == Reasons \cup {"rprime"}

(***************************************************************************)
(* JavaScript values.  A number is kept in half units (h = 2 * value) so    *)
(* that fractional arguments exist: h = 5 is 2.5, h = -1 is -0.5.           *)
(***************************************************************************)
Num(h) == [t |-> "number", h |-> h, s |-> ""]
Str(s) == [t |-> "string", h |-> 0, s |-> s]
Undefined == [t |-> "undefined", h |-> 0, s |-> ""]
\* A property the object does not have: reading it yields undefined.
Absent == [t |-> "absent", h |-> 0, s |-> ""]

\* typeof(v)
TypeOf(v) == IF v.t = "absent" THEN "undefined" ELSE v.t

\* if (v): 0 and "" are falsy, as is undefined.
Truthy(v) ==
    CASE v.t = "number" -> v.h # 0
      [] v.t = "string" -> v.s # ""
      [] OTHER -> FALSE

\* Math.floor on a number held in half units: the greatest integer <= h / 2.
Floor(h) == h \div 2

(***************************************************************************)
(* retrier.retry_fn: the registry of predefined policies.  It is a         *)
(* property of the function object retrier, so it is program state; this   *)
(* is its value once the module is loaded.                                  *)
(***************************************************************************)
PredefinedRetryFns ==
    [constant_timer_retry |->
        [params |-> << [key |-> "x_ms_between_retries", type |-> "number"],
                       [key |-> "n_retries", type |-> "number"] >>]]

VARIABLE
    retry_fn    \* retrier.retry_fn

\* Names for which retrier.retry_fn[name] is truthy although nothing was
\* registered under them: members inherited from Object.prototype.
InheritedNames == {"toString"}

(***************************************************************************)
(* Errors thrown synchronously by retrier.                                  *)
(***************************************************************************)
Err(kind, policy, key, actual, expected) ==
    [kind |-> kind, policy |-> policy, key |-> key,
     actual |-> actual, expected |-> expected]
NoErr == Err("none", "", "", "", "")
\* `Invalid parameters for retry promise function`
InvalidPolicyDescriptor == Err("InvalidPolicyDescriptor", "", "", "", "")
\* `No such predefined retry promise function: ${name}`
UnknownPolicy(name) == Err("UnknownPolicy", name, "", "", "")
\* `${name} is missing a property: ${key}`
MissingParameter(name, key) == Err("MissingParameter", name, key, "", "")
\* `${name}.${key} is incorrect type: ${actual} instead of ${expected}`
ParameterTypeMismatch(name, key, actual, expected) ==
    Err("ParameterTypeMismatch", name, key, actual, expected)
\* An engine TypeError (Object.keys(null), undefined.forEach).
TypeError == Err("TypeError", "", "", "", "")
\* The subject itself threw when retrier invoked it for the first time.
SubjectThrew(reason) == Err("SubjectThrew", "", "", reason, "")

(***************************************************************************)
(* constant_timer_retry: the closure it returns is modelled by the record   *)
(* of the variables the closure keeps.                                      *)
(***************************************************************************)
\* constant_timer_retry(x_ms_between_retries_, n_retries_), lines 70-73: the
\* scope of the closure holds the two parameters (in half units, as passed)
\* and the three variables computed from them.
constant_timer_retry(x_, n_) ==
    [x_ms_between_retries_ |-> x_.h,
     n_retries_ |-> n_.h,
     x_ms_between_retries |-> Floor(x_.h),
     n_retries |-> Floor(n_.h),
     retries_remaining |-> Floor(n_.h)]

\* Faulty variant of WillRetry: the budget test is off by one.
WillRetry_OffByOne(c) == c.retries_remaining > 1

\* The test of the returned closure: TRUE when a timer is set (line 76),
\* FALSE when the closure rejects with the error it was given (line 85).
WillRetry(c) == c.retries_remaining # 0

\* Faulty variant of TimerCallback: the callback resolves without counting
\* the retry down.
TimerCallback_NoDecrement(c) == c

\* The body of the setTimeout callback (line 80).
TimerCallback(c) == [c EXCEPT !.retries_remaining = @ - 1]

(***************************************************************************)
(* The policy resolver: the validation at the head of retrier.              *)
(***************************************************************************)
\* A retry_controller argument.  type is what typeof gives, except that null
\* is kept apart from other objects; fnref is 0 for a function written by
\* the caller and i for the closure insts[i]; keys is Object.keys of an
\* object; args is the object stored under its first key.
Descriptor(type, fnref, keys, args) ==
    [type |-> type, fnref |-> fnref, keys |-> keys, args |-> args]
NoArgs == [x_ms_between_retries |-> Absent, n_retries |-> Absent]
NoDescriptor == Descriptor("none", 0, <<>>, NoArgs)

\* The decision function a run holds.
NoCtl == [kind |-> "none", inst |-> 0]
CustomCtl == [kind |-> "custom", inst |-> 0]
ClosureCtl(i) == [kind |-> "closure", inst |-> i]

\* Faulty variant of ValidateParams: the typeof comparison is left out.
RECURSIVE ValidateParams_NoTypeCheck(_, _, _, _, _)
ValidateParams_NoTypeCheck(name, params, args, i, arg_vals) ==
    IF i > Len(params) THEN [err |-> NoErr, arg_vals |-> arg_vals]
    ELSE IF Truthy(args[params[i].key])
         THEN ValidateParams_NoTypeCheck(name, params, args, i + 1,
                                         Append(arg_vals, args[params[i].key]))
         ELSE [err |-> MissingParameter(name, params[i].key),
               arg_vals |-> arg_vals]

\* The body of the forEach over the registered params (lines 35-48), from
\* the i-th parameter on; arg_vals collects the values validated so far.
RECURSIVE ValidateParams(_, _, _, _, _)
ValidateParams(name, params, args, i, arg_vals) ==
    IF i > Len(params) THEN [err |-> NoErr, arg_vals |-> arg_vals]
    ELSE LET key == params[i].key
             val == args[key]
         IN  IF Truthy(val)
             THEN IF TypeOf(val) # params[i].type
                  THEN [err |-> ParameterTypeMismatch(name, key, TypeOf(val),
                                                      params[i].type),
                        arg_vals |-> arg_vals]
                  ELSE ValidateParams(name, params, args, i + 1,
                                      Append(arg_vals, val))
             ELSE [err |-> MissingParameter(name, key), arg_vals |-> arg_vals]

\* Faulty variant of NewInst: retries_remaining is one variable of the
\* module, written by every call of constant_timer_retry.
NewInst_Shared(is) == 1

\* Where a newly made closure is kept: every call of constant_timer_retry
\* makes a closure with variables of its own.
NewInst(is) == Len(is) + 1

\* The closures with closure c kept at place i.
StoreInst(is, i, c) ==
    IF i > Len(is) THEN Append(is, c) ELSE [is EXCEPT ![i] = c]

\* What the resolver yields: the error thrown (NoErr if none), the decision
\* function and the closures that exist afterwards.
Resolved(err, fn, is) == [err |-> err, fn |-> fn, insts |-> is]

\* A caller-supplied function is used as it is (lines 27-28).
ResolveFunction(d, is) ==
    Resolved(NoErr, IF d.fnref = 0 THEN CustomCtl ELSE ClosureCtl(d.fnref), is)

\* A single-key object naming a predefined policy (lines 30-50).
ResolvePredefined(d, is) ==
    LET predef_retry_fnname == d.keys[1] IN
    IF predef_retry_fnname \in InheritedNames
    THEN Resolved(TypeError, NoCtl, is)
    ELSE IF predef_retry_fnname \notin DOMAIN retry_fn
    THEN Resolved(UnknownPolicy(predef_retry_fnname), NoCtl, is)
    ELSE LET v == ValidateParams(predef_retry_fnname,
                                 retry_fn[predef_retry_fnname].params,
                                 d.args, 1, <<>>)
         IN  IF v.err # NoErr
             THEN Resolved(v.err, NoCtl, is)
             ELSE Resolved(NoErr, ClosureCtl(NewInst(is)),
                           StoreInst(is, NewInst(is),
                                     constant_timer_retry(v.arg_vals[1],
                                                          v.arg_vals[2])))

\* Lines 26-53.
Resolve(d, is) ==
    IF d.type = "function" THEN ResolveFunction(d, is)
    ELSE IF d.type = "null" THEN Resolved(TypeError, NoCtl, is)
    ELSE IF d.type = "object" /\ Len(d.keys) = 1 THEN ResolvePredefined(d, is)
    ELSE Resolved(InvalidPolicyDescriptor, NoCtl, is)

(***************************************************************************)
(* State.                                                                   *)
(***************************************************************************)
VARIABLES
    insts,      \* the closures made by constant_timer_retry, in order of making
    pc,         \* per run: where the call of retrier stands
    desc,       \* per run: the retry_controller argument it was given
    ctl,        \* per run: retry_controller_fn
    dec,        \* per run: the promise returned by retry_controller_fn(err)
    decReason,  \* per run: the reason that promise was rejected with
    attempts,   \* per run: calls of subject_promise_fn made
    rejections, \* per run: attempts whose promise was rejected
    throws,     \* per run: attempts in which subject_promise_fn threw
    lastReason, \* per run: the reason of the latest rejected attempt
    decisions,  \* per run: calls of retry_controller_fn made
    scheduled,  \* per run: setTimeout calls made for it
    fired,      \* per run: timer callbacks run for it
    outcome,    \* per run: what the promise returned by retrier settled with
    thrown      \* per run: what retrier threw synchronously

runVars == <<pc, desc, ctl, dec, decReason, attempts, rejections, throws,
             lastReason, decisions, scheduled, fired, outcome, thrown>>
vars == <<retry_fn, insts, pc, desc, ctl, dec, decReason, attempts, rejections, throws,
          lastReason, decisions, scheduled, fired, outcome, thrown>>

\* How the promise returned by retrier has settled.
Pending == [kind |-> "pending", v |-> ""]
Fulfilled(v) == [kind |-> "fulfilled", v |-> v]
Rejected(e) == [kind |-> "rejected", v |-> e]

Init ==
    /\ retry_fn = PredefinedRetryFns
    /\ insts = <<>>
    /\ pc = [r \in Runs |-> "NotCalled"]
    /\ desc = [r \in Runs |-> NoDescriptor]
    /\ ctl = [r \in Runs |-> NoCtl]
    /\ dec = [r \in Runs |-> "none"]
    /\ decReason = [r \in Runs |-> ""]
    /\ attempts = [r \in Runs |-> 0]
    /\ rejections = [r \in Runs |-> 0]
    /\ throws = [r \in Runs |-> 0]
    /\ lastReason = [r \in Runs |-> ""]
    /\ decisions = [r \in Runs |-> 0]
    /\ scheduled = [r \in Runs |-> 0]
    /\ fired = [r \in Runs |-> 0]
    /\ outcome = [r \in Runs |-> Pending]
    /\ thrown = [r \in Runs |-> NoErr]

(***************************************************************************)
(* The arguments callers pass.                                              *)
(***************************************************************************)
\* Retry counts, whole and fractional, negative ones included.
RetryNumbers == {Num(h) : h \in (-2)..(2 * MaxN)}
\* Delays: 0 ms, 100 ms, 100.5 ms.
DelayNumbers == {Num(0), Num(200), Num(201)}

ArgObjects ==
    [x_ms_between_retries : DelayNumbers \cup {Absent, Str(""), Str("100")},
     n_retries : RetryNumbers \cup {Absent, Undefined, Str(""), Str("3")}]

\* Every shape of retry_controller: functions, non-objects, null, objects
\* with no key, two keys, an unregistered key, an inherited key, and the
\* registered policy with every argument object.
AllDescriptors(is) ==
    {Descriptor("function", i, <<>>, NoArgs) : i \in 0..Len(is)}
    \cup {Descriptor(t, 0, <<>>, NoArgs) :
            t \in {"number", "string", "undefined", "null", "object"}}
    \cup {Descriptor("object", 0, ks, NoArgs) :
            ks \in {<<"constant_timer_retry", "exponential_backoff">>,
                    <<"exponential_backoff">>, <<"toString">>}}
    \cup {Descriptor("object", 0, <<"constant_timer_retry">>, a) :
            a \in ArgObjects}

\* What a caller constructing the policy directly passes.
AllConstructArgs == {Num(200)} \X RetryNumbers

(***************************************************************************)
(* Actions.                                                                 *)
(***************************************************************************)
\* The caller makes a closure itself: retrier.retry_fn.constant_timer_retry
\* .fn(x, n), to pass it to retrier as a function.
Construct(x, n) ==
    /\ Len(insts) < MaxInst
    /\ UNCHANGED retry_fn
    /\ \E r \in Runs : pc[r] = "NotCalled"
    /\ insts' = StoreInst(insts, NewInst(insts), constant_timer_retry(x, n))
    /\ UNCHANGED runVars

\* retrier(subject_promise_fn, d): the validation, then the first call of
\* subject_caller, whose call of subject_promise_fn either returns a promise
\* or throws (mode).
Call(r, d, mode, e) ==
    /\ pc[r] = "NotCalled"
    /\ UNCHANGED retry_fn
    /\ desc' = [desc EXCEPT ![r] = d]
    /\ LET res == Resolve(d, insts) IN
       IF res.err # NoErr
       THEN /\ pc' = [pc EXCEPT ![r] = "Threw"]
            /\ thrown' = [thrown EXCEPT ![r] = res.err]
            /\ UNCHANGED <<insts, ctl, attempts, throws>>
       ELSE /\ insts' = res.insts
            /\ ctl' = [ctl EXCEPT ![r] = res.fn]
            /\ attempts' = [attempts EXCEPT ![r] = 1]
            /\ IF mode = "throws"
               THEN /\ pc' = [pc EXCEPT ![r] = "Threw"]
                    /\ thrown' = [thrown EXCEPT ![r] = SubjectThrew(e)]
                    /\ throws' = [throws EXCEPT ![r] = 1]
               ELSE /\ pc' = [pc EXCEPT ![r] = "Attempting"]
                    /\ UNCHANGED <<thrown, throws>>
    /\ UNCHANGED <<dec, decReason, rejections, lastReason, decisions,
                   scheduled, fired, outcome>>

\* The promise of the attempt in flight is fulfilled with v: nothing catches,
\* the promise returned by retrier is fulfilled with v.
SubjectResolves(r, v) ==
    /\ pc[r] = "Attempting"
    /\ UNCHANGED retry_fn
    /\ pc' = [pc EXCEPT ![r] = "Succeeded"]
    /\ outcome' = [outcome EXCEPT ![r] = Fulfilled(v)]
    /\ UNCHANGED <<insts, desc, ctl, dec, decReason, attempts, rejections, throws,
                   lastReason, decisions, scheduled, fired, thrown>>

\* Faulty variant of Decide: the closure fulfils its promise at once instead
\* of inside a setTimeout callback.
Decide_WithoutTimer(c, is) ==
    IF c.kind = "custom" THEN "custom"
    ELSE IF WillRetry(is[c.inst]) THEN "proceed" ELSE "abort"

\* What retry_controller_fn(err) returns at once: a promise waiting for its
\* timer, a promise already rejected with err, or the promise of a function
\* written by the caller.
Decide(c, is) ==
    IF c.kind = "custom" THEN "custom"
    ELSE IF WillRetry(is[c.inst]) THEN "timer" ELSE "abort"

\* The promise of the attempt in flight is rejected with e: the catch
\* handler (lines 59-60) calls retry_controller_fn(e).
SubjectRejects(r, e) ==
    /\ pc[r] = "Attempting"
    /\ UNCHANGED retry_fn
    /\ pc' = [pc EXCEPT ![r] = "AwaitingDecision"]
    /\ rejections' = [rejections EXCEPT ![r] = @ + 1]
    /\ lastReason' = [lastReason EXCEPT ![r] = e]
    /\ decisions' = [decisions EXCEPT ![r] = @ + 1]
    /\ LET d == Decide(ctl[r], insts) IN
       /\ dec' = [dec EXCEPT ![r] = d]
       /\ scheduled' = [scheduled EXCEPT ![r] = IF d = "timer" THEN @ + 1 ELSE @]
       /\ decReason' = [decReason EXCEPT ![r] = IF d = "abort" THEN e ELSE @]
    /\ UNCHANGED <<insts, desc, ctl, attempts, throws, fired, outcome, thrown>>

\* The timer set by the closure fires (lines 79-81): the counter goes down
\* and the decision promise is fulfilled.
TimerFires(r) ==
    /\ dec[r] = "timer"
    /\ UNCHANGED retry_fn
    /\ insts' = [insts EXCEPT ![ctl[r].inst] = TimerCallback(@)]
    /\ dec' = [dec EXCEPT ![r] = "proceed"]
    /\ fired' = [fired EXCEPT ![r] = @ + 1]
    /\ UNCHANGED <<pc, desc, ctl, decReason, attempts, rejections, throws, lastReason,
                   decisions, scheduled, outcome, thrown>>

\* The promise of a decision function written by the caller settles:
\* fulfilled (proceed) or rejected with a reason of its choice.
CustomProceeds(r) ==
    /\ dec[r] = "custom"
    /\ UNCHANGED retry_fn
    /\ dec' = [dec EXCEPT ![r] = "proceed"]
    /\ UNCHANGED <<insts, pc, desc, ctl, decReason, attempts, rejections, throws,
                   lastReason, decisions, scheduled, fired, outcome, thrown>>

CustomAborts(r, e) ==
    /\ dec[r] = "custom"
    /\ UNCHANGED retry_fn
    /\ dec' = [dec EXCEPT ![r] = "abort"]
    /\ decReason' = [decReason EXCEPT ![r] = e]
    /\ UNCHANGED <<insts, pc, desc, ctl, attempts, rejections, throws, lastReason,
                   decisions, scheduled, fired, outcome, thrown>>

\* Faulty variant of Retry: .then(subject_caller()) in place of
\* .then(() => subject_caller()), so that the next attempt starts when the
\* decision function has been called, not when its promise is fulfilled.
Retry_Speculative(r, mode, e) ==
    /\ dec[r] \in {"timer", "custom"}
    /\ UNCHANGED retry_fn
    /\ attempts[r] < MaxAttempts
    /\ attempts' = [attempts EXCEPT ![r] = @ + 1]
    /\ pc' = [pc EXCEPT ![r] = "Attempting"]
    /\ UNCHANGED <<insts, desc, ctl, dec, decReason, rejections, throws,
                   lastReason, decisions, scheduled, fired, outcome, thrown>>

\* Faulty variant of Retry: subject_caller resolves the descriptor again
\* before each later attempt, so a named policy is constructed anew.
Retry_Reresolves(r, mode, e) ==
    /\ dec[r] = "proceed"
    /\ UNCHANGED retry_fn
    /\ attempts[r] < MaxAttempts
    /\ attempts' = [attempts EXCEPT ![r] = @ + 1]
    /\ dec' = [dec EXCEPT ![r] = "none"]
    /\ LET res == Resolve(desc[r], insts) IN
          /\ insts' = res.insts
          /\ ctl' = [ctl EXCEPT ![r] = res.fn]
    /\ IF mode = "throws"
       THEN /\ pc' = [pc EXCEPT ![r] = "Failed"]
            /\ outcome' = [outcome EXCEPT ![r] = Rejected(e)]
            /\ throws' = [throws EXCEPT ![r] = @ + 1]
       ELSE /\ pc' = [pc EXCEPT ![r] = "Attempting"]
            /\ UNCHANGED <<outcome, throws>>
    /\ UNCHANGED <<desc, decReason, rejections, lastReason,
                   decisions, scheduled, fired, thrown>>

\* The then handler of the fulfilled decision (lines 61-63) calls
\* subject_caller again.  If subject_promise_fn throws there, the throw
\* rejects the promise of the then, and with it the promise of retrier.
Retry(r, mode, e) ==
    /\ dec[r] = "proceed"
    /\ UNCHANGED retry_fn
    /\ attempts[r] < MaxAttempts
    /\ attempts' = [attempts EXCEPT ![r] = @ + 1]
    /\ dec' = [dec EXCEPT ![r] = "none"]
    /\ IF mode = "throws"
       THEN /\ pc' = [pc EXCEPT ![r] = "Failed"]
            /\ outcome' = [outcome EXCEPT ![r] = Rejected(e)]
            /\ throws' = [throws EXCEPT ![r] = @ + 1]
       ELSE /\ pc' = [pc EXCEPT ![r] = "Attempting"]
            /\ UNCHANGED <<outcome, throws>>
    /\ UNCHANGED <<insts, desc, ctl, decReason, rejections, lastReason,
                   decisions, scheduled, fired, thrown>>

\* Faulty variant of Abort: the rejection of the decision is swallowed and
\* the subject is called again, .catch(() => subject_caller()).
Abort_ThenRetries(r) ==
    /\ dec[r] = "abort"
    /\ UNCHANGED retry_fn
    /\ attempts[r] < MaxAttempts
    /\ dec' = [dec EXCEPT ![r] = "none"]
    /\ pc' = [pc EXCEPT ![r] = "Attempting"]
    /\ attempts' = [attempts EXCEPT ![r] = @ + 1]
    /\ UNCHANGED <<insts, desc, ctl, decReason, rejections, throws,
                   lastReason, decisions, scheduled, fired, outcome, thrown>>

\* Faulty variant of Abort: the run is rejected with the reason of the
\* subject, whatever the decision function was rejected with.
Abort_WithSubjectReason(r) ==
    /\ dec[r] = "abort"
    /\ UNCHANGED retry_fn
    /\ dec' = [dec EXCEPT ![r] = "none"]
    /\ pc' = [pc EXCEPT ![r] = "Failed"]
    /\ outcome' = [outcome EXCEPT ![r] = Rejected(lastReason[r])]
    /\ UNCHANGED <<insts, desc, ctl, decReason, attempts, rejections, throws,
                   lastReason, decisions, scheduled, fired, thrown>>

\* The rejected decision passes the then handler by and rejects the promise
\* returned by retrier with the same reason.
Abort(r) ==
    /\ dec[r] = "abort"
    /\ UNCHANGED retry_fn
    /\ dec' = [dec EXCEPT ![r] = "none"]
    /\ pc' = [pc EXCEPT ![r] = "Failed"]
    /\ outcome' = [outcome EXCEPT ![r] = Rejected(decReason[r])]
    /\ UNCHANGED <<insts, desc, ctl, decReason, attempts, rejections, throws,
                   lastReason, decisions, scheduled, fired, thrown>>

SubjectModes == {"returns", "throws"}

\* One call of retrier, given any retry_controller.
Next ==
    \/ \E d \in AllDescriptors(insts), m \in SubjectModes, e \in Reasons :
          Call("A", d, m, e)
    \/ \E v \in Values : SubjectResolves("A", v)
    \/ \E e \in Reasons : SubjectRejects("A", e)
    \/ TimerFires("A")
    \/ CustomProceeds("A")
    \/ \E e \in CustomReasons : CustomAborts("A", e)
    \/ \E m \in SubjectModes, e \in Reasons : Retry("A", m, e)
    \/ Abort("A")
    \/ \E a \in AllConstructArgs : Construct(a[1], a[2])

Spec == Init /\ [][Next]_vars

\* Two calls of retrier side by side, given functions or the registered
\* policy with a whole retry count.  "A" names the call made first.
TwoRunRetries == {Num(0), Num(2), Num(4)}
\* The closures the caller can pass on: those it made itself.  A closure made
\* inside retrier is held by the local retry_controller_fn alone.
CallerHeld(is) ==
    {i \in 1..Len(is) :
        ~ \E r \in Runs : desc[r].type = "object" /\ ctl[r] = ClosureCtl(i)}
TwoRunDescriptors(is) ==
    {Descriptor("function", i, <<>>, NoArgs) : i \in {0} \cup CallerHeld(is)}
    \cup {Descriptor("object", 0, <<"constant_timer_retry">>,
                     [x_ms_between_retries |-> Num(200), n_retries |-> n]) :
            n \in TwoRunRetries}

NextTwo ==
    \/ \E r \in Runs :
        \/ \E d \in TwoRunDescriptors(insts), m \in SubjectModes, e \in Reasons :
              /\ r = "B" => pc["A"] # "NotCalled"
              /\ Call(r, d, m, e)
        \/ \E v \in Values : SubjectResolves(r, v)
        \/ \E e \in Reasons : SubjectRejects(r, e)
        \/ TimerFires(r)
        \/ CustomProceeds(r)
        \/ \E e \in CustomReasons : CustomAborts(r, e)
        \/ \E m \in SubjectModes, e \in Reasons : Retry(r, m, e)
        \/ Abort(r)
    \/ \E n \in TwoRunRetries : Construct(Num(200), n)

SpecTwo == Init /\ [][NextTwo]_vars

(***************************************************************************)
(* Vocabulary of the properties.                                            *)
(***************************************************************************)
\* retrier was called for r and its validation threw nothing.
Accepted(r) == ctl[r] # NoCtl

\* r runs with a closure of constant_timer_retry that no other call holds.
OwnClosure(r) ==
    /\ ctl[r].kind = "closure"
    /\ \A q \in Runs \ {r} : ctl[q] # ctl[r]

\* The closure of r, and the retry count it was constructed with when that
\* count is a whole number.
Closure(r) == insts[ctl[r].inst]
WholeRetries(r) == Closure(r).n_retries_ % 2 = 0
N(r) == Closure(r).n_retries_ \div 2

\* Every attempt of r made so far returned a promise, and every one of them
\* that has settled was rejected.
FailedEveryAttempt(r) ==
    /\ pc[r] \in {"Attempting", "AwaitingDecision", "Failed"}
    /\ throws[r] = 0

\* d names the registered policy under its single key.
NamesPolicy(d) ==
    d.type = "object" /\ d.keys = <<"constant_timer_retry">>

(***************************************************************************)
(* C1.  A run whose decision function is a constant_timer_retry closure of  *)
(* its own, constructed with a whole N >= 0, and whose subject's promise is *)
(* rejected at every attempt: the subject is never invoked more than N + 1  *)
(* times; the closure does not abort before attempt N + 1 and aborts on it; *)
(* and the failed run has made exactly N + 1 attempts and is rejected with  *)
(* the reason of the latest attempt.                                        *)
(***************************************************************************)
C1_AlwaysFailingMakesNPlus1Attempts ==
    \A r \in Runs :
        (OwnClosure(r) /\ WholeRetries(r) /\ N(r) >= 0
                       /\ FailedEveryAttempt(r)) =>
            /\ attempts[r] <= N(r) + 1
            /\ (pc[r] = "AwaitingDecision" /\ attempts[r] <= N(r)) =>
                   dec[r] \in {"timer", "proceed"}
            /\ (pc[r] = "AwaitingDecision" /\ attempts[r] = N(r) + 1) =>
                   (dec[r] = "abort" /\ decReason[r] = lastReason[r])
            /\ pc[r] = "Failed" =>
                   /\ attempts[r] = N(r) + 1
                   /\ rejections[r] = N(r) + 1
                   /\ outcome[r] = Rejected(lastReason[r])

\* A run with N = MaxN that failed after MaxN + 1 rejected attempts.
C1_Witness ==
    \E r \in Runs :
        /\ OwnClosure(r) /\ WholeRetries(r) /\ N(r) = MaxN
        /\ FailedEveryAttempt(r)
        /\ pc[r] = "Failed" /\ attempts[r] = MaxN + 1
        /\ outcome[r] = Rejected("e2")

(***************************************************************************)
(* C2.  A run with a constant_timer_retry closure of its own (whole         *)
(* N >= 0) whose subject is rejected K times and then fulfilled: K + 1      *)
(* invocations, K timers set and K fired, fulfilled with a value; no        *)
(* attempt after the first starts before its timer fired, and none starts   *)
(* while a timer is pending.  {constant_timer_retry: {x_ms_between_retries: *)
(* 100, n_retries: 3}} with three failures gives 4 invocations, 3 delays.   *)
(***************************************************************************)
C2_KFailuresThenSuccess ==
    \A r \in Runs :
        (OwnClosure(r) /\ WholeRetries(r) /\ N(r) >= 0 /\ throws[r] = 0) =>
            /\ attempts[r] <= fired[r] + 1
            /\ dec[r] = "timer" => (pc[r] = "AwaitingDecision"
                                    /\ scheduled[r] = fired[r] + 1
                                    /\ attempts[r] = scheduled[r])
            /\ pc[r] = "Succeeded" =>
                   /\ rejections[r] <= N(r)
                   /\ attempts[r] = rejections[r] + 1
                   /\ scheduled[r] = rejections[r]
                   /\ fired[r] = rejections[r]
                   /\ outcome[r].kind = "fulfilled"
                   /\ outcome[r].v \in Values

HundredMsThreeRetries ==
    Descriptor("object", 0, <<"constant_timer_retry">>,
               [x_ms_between_retries |-> Num(200), n_retries |-> Num(6)])

\* The scenario of the spec: 100 ms, 3 retries, attempts 1-3 fail, 4 succeeds.
C2_Witness ==
    \E r \in Runs :
        /\ desc[r] = HundredMsThreeRetries
        /\ Closure(r).x_ms_between_retries = 100
        /\ pc[r] = "Succeeded" /\ outcome[r] = Fulfilled("v2")
        /\ attempts[r] = 4 /\ rejections[r] = 3
        /\ scheduled[r] = 3 /\ fired[r] = 3

(***************************************************************************)
(* C3.  A malformed descriptor makes retrier throw before anything else     *)
(* happens: no subject invocation, no decision function constructed or      *)
(* invoked, no timer.                                                       *)
(***************************************************************************)
\* Malformed as the specification lists it: neither a function nor a
\* single-key mapping; a key naming no registered policy; a registered
\* parameter missing, or present with a value of another type.
Malformed(d) ==
    /\ d.type # "function"
    /\ \/ ~(d.type = "object" /\ Len(d.keys) = 1)
       \/ d.keys[1] \notin DOMAIN retry_fn
       \/ \E i \in 1..Len(retry_fn[d.keys[1]].params) :
             LET p == retry_fn[d.keys[1]].params[i] IN
             \/ d.args[p.key] = Absent
             \/ TypeOf(d.args[p.key]) # p.type

C3_MalformedDescriptorFailsBeforeAnyAttempt ==
    \A r \in Runs :
        (pc[r] # "NotCalled" /\ Malformed(desc[r])) =>
            /\ pc[r] = "Threw"
            /\ thrown[r] # NoErr
            /\ ctl[r] = NoCtl
            /\ Resolve(desc[r], insts).insts = insts
            /\ attempts[r] = 0
            /\ decisions[r] = 0
            /\ scheduled[r] = 0
            /\ outcome[r] = Pending

\* A call that threw ParameterTypeMismatch with nothing invoked.
C3_Witness ==
    \E r \in Runs :
        /\ Malformed(desc[r])
        /\ thrown[r].kind = "ParameterTypeMismatch"
        /\ attempts[r] = 0

(***************************************************************************)
(* C4.  A descriptor naming constant_timer_retry with a positive delay and  *)
(* n_retries: 0 is accepted, the subject is invoked exactly once, and a     *)
(* failure of that attempt fails the run with its reason and no timer.      *)
(***************************************************************************)
ZeroRetriesDescriptor(d) ==
    /\ NamesPolicy(d)
    /\ d.args.x_ms_between_retries.t = "number"
    /\ d.args.x_ms_between_retries.h > 0
    /\ d.args.n_retries = Num(0)

C4_ZeroRetriesDescriptorAttemptsOnce ==
    \A r \in Runs :
        (pc[r] # "NotCalled" /\ ZeroRetriesDescriptor(desc[r])) =>
            /\ Accepted(r)
            /\ attempts[r] = 1
            /\ pc[r] = "Failed" =>
                   (scheduled[r] = 0 /\ outcome[r] = Rejected(lastReason[r]))

(***************************************************************************)
(* C5.  A negative retry count never causes retrying: a closure constructed *)
(* with a whole n_retries < 0, directly or through a descriptor, is         *)
(* rejected at construction or behaves as one constructed with 0, so no     *)
(* timer is ever set for its run and its first rejected attempt aborts.     *)
(***************************************************************************)
C5_NegativeRetryCountNeverRetries ==
    \A r \in Runs :
        (ctl[r].kind = "closure" /\ WholeRetries(r) /\ N(r) < 0) =>
            /\ scheduled[r] = 0
            /\ attempts[r] <= 1
            /\ pc[r] = "AwaitingDecision" => dec[r] = "abort"

(***************************************************************************)
(* C6.  Within one run at most one of {subject invocation, decision         *)
(* evaluation} is outstanding: no attempt is in flight while a decision is  *)
(* not yet acted upon, no decision is evaluated while an attempt is in      *)
(* flight, and attempts and decisions alternate, an attempt first.          *)
(***************************************************************************)
\* Attempts of r started and not yet settled.
OutstandingAttempts(r) ==
    attempts[r] - rejections[r] - throws[r]
        - (IF pc[r] = "Succeeded" THEN 1 ELSE 0)

C6_AttemptsAndDecisionsAlternate ==
    \A r \in Runs :
        /\ OutstandingAttempts(r) \in {0, 1}
        /\ OutstandingAttempts(r) = 1 <=> pc[r] = "Attempting"
        /\ dec[r] # "none" <=> pc[r] = "AwaitingDecision"
        /\ pc[r] = "Attempting" =>
               (dec[r] = "none" /\ attempts[r] = decisions[r] + 1)
        /\ pc[r] = "AwaitingDecision" => attempts[r] = decisions[r]
        /\ decisions[r] <= attempts[r]
        /\ attempts[r] <= decisions[r] + 1
        /\ decisions[r] = rejections[r]

\* A third attempt in flight after two decisions, none pending.
C6_Witness ==
    \E r \in Runs :
        /\ pc[r] = "Attempting" /\ attempts[r] = 3 /\ decisions[r] = 2
        /\ dec[r] = "none"

(***************************************************************************)
(* C7.  Two runs started with the same constant_timer_retry descriptor hold *)
(* two closures with counters of their own: the counter of each closure is  *)
(* its N less the timers fired for its own run, whatever the other run did, *)
(* and each run whose subject is always rejected makes exactly N + 1        *)
(* attempts.                                                                *)
(***************************************************************************)
SameDescriptorTwice ==
    /\ NamesPolicy(desc["A"])
    /\ desc["B"] = desc["A"]
    /\ Accepted("A") /\ Accepted("B")

C7_SameDescriptorIndependentCounters ==
    SameDescriptorTwice =>
        /\ ctl["A"] # ctl["B"]
        /\ \A r \in Runs :
            /\ ctl[r].kind = "closure"
            /\ Closure(r).retries_remaining = N(r) - fired[r]
            /\ FailedEveryAttempt(r) =>
                   /\ attempts[r] <= N(r) + 1
                   /\ pc[r] = "Failed" => attempts[r] = N(r) + 1

\* Both runs, given {x_ms_between_retries: 100, n_retries: 2}, failed after
\* three attempts each.
C7_Witness ==
    /\ SameDescriptorTwice
    /\ \A r \in Runs :
        /\ N(r) = 2 /\ FailedEveryAttempt(r)
        /\ pc[r] = "Failed" /\ attempts[r] = 3 /\ fired[r] = 2

PresentAndTyped(d, i) ==
    LET p == retry_fn[d.keys[1]].params[i] IN
    d.args[p.key] # Absent /\ TypeOf(d.args[p.key]) = p.type

C9_PresentTypedParameterNeverMissing ==
    \A r \in Runs :
        (pc[r] # "NotCalled" /\ NamesPolicy(desc[r])) =>
            LET n == Len(retry_fn[desc[r].keys[1]].params) IN
            /\ \A i \in 1..n :
                  PresentAndTyped(desc[r], i) =>
                      thrown[r] # MissingParameter(desc[r].keys[1],
                          retry_fn[desc[r].keys[1]].params[i].key)
            /\ (\A i \in 1..n : PresentAndTyped(desc[r], i)) =>
                   (Accepted(r) /\ ctl[r].kind = "closure")

(***************************************************************************)
(* C10.  For a descriptor naming the registered policy whose first          *)
(* offending parameter is present with a value of another type than         *)
(* declared (a string, the empty string included, for "number"), the        *)
(* resolver throws ParameterTypeMismatch naming that parameter, before any  *)
(* attempt or delay.                                                        *)
(***************************************************************************)
\* The i-th registered parameter of d is present with a wrong type, and the
\* parameters before it hold values the resolver passes.
FirstOffenderIsMistyped(d, i) ==
    LET ps == retry_fn[d.keys[1]].params IN
    /\ d.args[ps[i].key] # Absent
    /\ TypeOf(d.args[ps[i].key]) # ps[i].type
    /\ \A j \in 1..(i - 1) :
          Truthy(d.args[ps[j].key]) /\ TypeOf(d.args[ps[j].key]) = ps[j].type

C10_MistypedParameterGivesTypeMismatch ==
    \A r \in Runs :
        (pc[r] # "NotCalled" /\ NamesPolicy(desc[r])) =>
            \A i \in 1..Len(retry_fn[desc[r].keys[1]].params) :
                FirstOffenderIsMistyped(desc[r], i) =>
                    LET p == retry_fn[desc[r].keys[1]].params[i] IN
                    /\ thrown[r] =
                          ParameterTypeMismatch(desc[r].keys[1], p.key,
                              TypeOf(desc[r].args[p.key]), p.type)
                    /\ attempts[r] = 0
                    /\ scheduled[r] = 0

(***************************************************************************)
(* C11.  Every descriptor that is neither a function nor a mapping with     *)
(* exactly one key (null, a number, a string, undefined, a mapping with no  *)
(* key or with two) makes retrier throw InvalidPolicyDescriptor, and every  *)
(* single-key mapping whose key is not a registered policy name makes it    *)
(* throw UnknownPolicy naming that key.                                     *)
(***************************************************************************)
SingleKeyMapping(d) == d.type = "object" /\ Len(d.keys) = 1

C11_DescriptorShapeClassified ==
    \A r \in Runs :
        pc[r] # "NotCalled" =>
            /\ (desc[r].type # "function" /\ ~SingleKeyMapping(desc[r])) =>
                   thrown[r] = InvalidPolicyDescriptor
            /\ (SingleKeyMapping(desc[r])
                    /\ desc[r].keys[1] \notin DOMAIN retry_fn) =>
                   thrown[r] = UnknownPolicy(desc[r].keys[1])

(***************************************************************************)
(* C12.  A run moves only along Attempting -> Succeeded (the attempt is     *)
(* fulfilled), Attempting -> AwaitingDecision (the attempt is rejected and  *)
(* the decision function is called), AwaitingDecision -> Attempting (the    *)
(* decision proceeded and the subject is called again) and                  *)
(* AwaitingDecision -> Failed (the decision aborted), entering at           *)
(* Attempting; and once Succeeded or Failed it invokes neither the subject  *)
(* nor the decision function again, sets no timer, and keeps its outcome.   *)
(* The label of the last transition is stated for a subject that returns a  *)
(* promise each time it is called.                                          *)
(***************************************************************************)
RunTransitions ==
    {<<"NotCalled", "Attempting">>, <<"NotCalled", "Threw">>,
     <<"Attempting", "Succeeded">>, <<"Attempting", "AwaitingDecision">>,
     <<"AwaitingDecision", "Attempting">>, <<"AwaitingDecision", "Failed">>}

RunStep(r) ==
    /\ pc[r] # pc'[r] => <<pc[r], pc'[r]>> \in RunTransitions
    /\ (pc[r] = "NotCalled" /\ pc'[r] = "Attempting") =>
           (attempts'[r] = 1 /\ decisions'[r] = 0)
    /\ (pc[r] = "Attempting" /\ pc'[r] = "Succeeded") =>
           (outcome'[r].kind = "fulfilled" /\ attempts'[r] = attempts[r]
            /\ decisions'[r] = decisions[r])
    /\ (pc[r] = "Attempting" /\ pc'[r] = "AwaitingDecision") =>
           (rejections'[r] = rejections[r] + 1
            /\ decisions'[r] = decisions[r] + 1
            /\ attempts'[r] = attempts[r] /\ outcome'[r] = Pending)
    /\ (pc[r] = "AwaitingDecision" /\ pc'[r] = "Attempting") =>
           (dec[r] = "proceed" /\ attempts'[r] = attempts[r] + 1
            /\ outcome'[r] = Pending)
    /\ (pc[r] = "AwaitingDecision" /\ pc'[r] = "Failed"
            /\ throws'[r] = throws[r]) =>
           (dec[r] = "abort" /\ outcome'[r] = Rejected(decReason[r])
            /\ attempts'[r] = attempts[r])
    /\ pc[r] \in {"Succeeded", "Failed"} =>
           /\ pc'[r] = pc[r]
           /\ outcome'[r] = outcome[r]
           /\ attempts'[r] = attempts[r]
           /\ decisions'[r] = decisions[r]
           /\ scheduled'[r] = scheduled[r]
           /\ fired'[r] = fired[r]

C13_EverySubjectFailureReachesDecision ==
    \A r \in Runs :
        /\ decisions[r] = rejections[r] + throws[r]
        /\ thrown[r].kind # "SubjectThrew"
        /\ pc[r] = "Failed" =>
               (decisions[r] = attempts[r]
                /\ outcome[r] = Rejected(decReason[r]))

(***************************************************************************)
(* C14.  The resolver validates the registered parameters in declared order *)
(* and the error it throws is that of the first offending parameter in that *)
(* order (x_ms_between_retries missing and n_retries mistyped gives         *)
(* MissingParameter for x_ms_between_retries); when no parameter offends,   *)
(* the values go to the constructor positionally, delay first, retry count  *)
(* second.                                                                  *)
(***************************************************************************)
\* The i-th registered parameter of d is missing or of another type.
Offending(d, i) == ~PresentAndTyped(d, i)

\* The first offending parameter of d in declared order, 0 if there is none.
FirstOffender(d) ==
    LET n == Len(retry_fn[d.keys[1]].params)
        bad == {i \in 1..n : Offending(d, i)}
    IN  IF bad = {} THEN 0
        ELSE CHOOSE i \in bad : \A j \in bad : i <= j

C14_FirstOffenderInDeclaredOrderReported ==
    \A r \in Runs :
        (pc[r] # "NotCalled" /\ NamesPolicy(desc[r])) =>
            LET ps == retry_fn[desc[r].keys[1]].params
                i == FirstOffender(desc[r])
            IN  IF i = 0
                THEN Accepted(r) =>
                     /\ ctl[r].kind = "closure"
                     /\ Closure(r).x_ms_between_retries_ =
                            desc[r].args[ps[1].key].h
                     /\ Closure(r).n_retries_ = desc[r].args[ps[2].key].h
                ELSE /\ thrown[r].kind \in
                            {"MissingParameter", "ParameterTypeMismatch"}
                     /\ thrown[r].key = ps[i].key

(***************************************************************************)
(* C15.  The counter of a constant_timer_retry closure starts at the retry  *)
(* count it was constructed with, changes only by a decrement of 1 in the   *)
(* step in which one of its timers fires (not when the closure is called,   *)
(* not when it aborts), and is never increased or reset; and a closure that *)
(* has aborted once aborts at once on every later call, also when it is the *)
(* decision function of another run.                                        *)
(***************************************************************************)
\* One step as seen from the closure kept at place i.
CounterStep(i) ==
    IF i \notin DOMAIN insts
    THEN insts'[i].retries_remaining = Floor(insts'[i].n_retries_)
    ELSE \/ insts'[i] = insts[i]
         \/ /\ insts'[i] = [insts[i] EXCEPT !.retries_remaining = @ - 1]
            /\ \E r \in Runs :
                  /\ ctl[r] = ClosureCtl(i) /\ dec[r] = "timer"
                  /\ fired'[r] = fired[r] + 1

\* Closure i has rejected the promise of a call made for run r.
AbortedFor(i, r) ==
    /\ ctl[r] = ClosureCtl(i)
    /\ \/ dec[r] = "abort"
       \/ pc[r] = "Failed" /\ rejections[r] = attempts[r]

\* This step calls closure i for run q.
CalledFor(i, q) ==
    ctl[q] = ClosureCtl(i) /\ decisions'[q] = decisions[q] + 1

AbortsAgain(i) ==
    \A r, q \in Runs :
        (AbortedFor(i, r) /\ CalledFor(i, q)) => dec'[q] = "abort"

C15_CounterOnlyDecrementsAndAbortIsFinal ==
    [][\A i \in DOMAIN insts' : CounterStep(i) /\ AbortsAgain(i)]_vars

\* The first half alone: how the counter starts and changes.
CounterOnlyDecrementsAtTimer ==
    [][\A i \in DOMAIN insts' : CounterStep(i)]_vars


(***************************************************************************)
(* C16.  Resolution is pure and happens once: no step of a call of retrier  *)
(* changes the registry retrier.retry_fn; the registered constructor is     *)
(* invoked for a call at most once, in the step that validates the          *)
(* descriptor and before the first attempt; and once the call is under way  *)
(* its decision function is never looked up or constructed again.           *)
(***************************************************************************)
\* A closure is made in this step: by the caller directly, or by exactly one
\* call of retrier that names a policy and has made no attempt yet.
ConstructorInvokedOnlyAtResolution ==
    Len(insts') # Len(insts) =>
        /\ Len(insts') = Len(insts) + 1
        /\ \/ UNCHANGED runVars
           \/ \E r \in Runs :
                 /\ pc[r] = "NotCalled" /\ attempts[r] = 0
                 /\ NamesPolicy(desc'[r])
                 /\ ctl'[r] = ClosureCtl(Len(insts'))
                 /\ \A q \in Runs \ {r} : ctl'[q] = ctl[q]

\* A call that is under way keeps its descriptor and its decision function.
ResolvedOnce(r) ==
    pc[r] # "NotCalled" => (ctl'[r] = ctl[r] /\ desc'[r] = desc[r])

C16_ResolutionPureAndOnce ==
    [][/\ retry_fn' = retry_fn
       /\ ConstructorInvokedOnlyAtResolution
       /\ \A r \in Runs : ResolvedOnce(r)]_vars

\* A call that named the registered policy has retried twice with the one
\* closure made for it, and the registry is as it was loaded.
C16_Witness ==
    \E r \in Runs :
        /\ NamesPolicy(desc[r]) /\ ctl[r] = ClosureCtl(1) /\ Len(insts) = 1
        /\ attempts[r] = 3 /\ fired[r] = 2
        /\ retry_fn = PredefinedRetryFns


(***************************************************************************)
(* C17.  constant_timer_retry truncates a fractional retry count toward     *)
(* zero: a closure made from a fractional count x allows exactly trunc(x)   *)
(* retries, so 2.5 allows exactly 2 and -0.5 allows exactly 0.              *)
(***************************************************************************)
\* Truncation toward zero of the number h/2.
Trunc(h) == IF h >= 0 THEN h \div 2 ELSE -((-h) \div 2)

\* Run r, alone on a closure made from a fractional count, retries as a
\* closure made from t would.
RetriesAsConstructedFrom(r, t) ==
    /\ fired[r] <= t
    /\ (pc[r] = "Failed" /\ throws[r] = 0) => attempts[r] = t + 1

C17_FractionalCountTruncatedTowardZero ==
    \A r \in Runs :
        (OwnClosure(r) /\ ~WholeRetries(r)) =>
            RetriesAsConstructedFrom(r, Trunc(Closure(r).n_retries_))

\* The same for the positive fractions alone, where floor and truncation
\* agree.
PositiveFractionTruncated ==
    \A r \in Runs :
        (OwnClosure(r) /\ ~WholeRetries(r) /\ Closure(r).n_retries_ > 0) =>
            RetriesAsConstructedFrom(r, Trunc(Closure(r).n_retries_))


(***************************************************************************)
(* C18.  For one constant_timer_retry closure made with a whole retry       *)
(* count N >= 0, however its calls interleave (also when two calls of       *)
(* retrier that run side by side were given the same closure, so that it is *)
(* called again while its earlier timer is pending), the counter never goes *)
(* below 0 and the closure signals proceed at most N times in all.          *)
(***************************************************************************)
\* Timers of closure i that have fired, over the calls of retrier using it.
ProceedsOf(i, r) == IF ctl[r] = ClosureCtl(i) THEN fired[r] ELSE 0
ProceedsSignalled(i) == ProceedsOf(i, "A") + ProceedsOf(i, "B")

C18_SharedClosureKeepsItsBudget ==
    \A i \in DOMAIN insts :
        (insts[i].n_retries_ % 2 = 0 /\ insts[i].n_retries_ >= 0) =>
            /\ insts[i].retries_remaining >= 0
            /\ ProceedsSignalled(i) <= insts[i].n_retries_ \div 2


(***************************************************************************)
(* The single call of Spec, with the scheduling Node guarantees: a pending  *)
(* attempt settles (the premise of C19), a timer that is due fires, and a   *)
(* queued then or catch callback runs.                                      *)
(***************************************************************************)
AttemptSettles(r) ==
    \/ \E v \in Values : SubjectResolves(r, v)
    \/ \E e \in Reasons : SubjectRejects(r, e)

FairSpec ==
    /\ Spec
    /\ WF_vars(AttemptSettles("A"))
    /\ WF_vars(TimerFires("A"))
    /\ WF_vars(\E m \in SubjectModes, e \in Reasons : Retry("A", m, e))
    /\ WF_vars(Abort("A"))

(***************************************************************************)
(* C19.  A call of retrier with a fresh constant_timer_retry closure of a   *)
(* whole retry count N >= 0, whose attempts all settle, eventually reaches  *)
(* Succeeded or Failed, calls the subject at most N+1 times, and at every   *)
(* moment has made 1 + (N - counter) attempts.                              *)
(***************************************************************************)
FreshClosureRun(r) == OwnClosure(r) /\ WholeRetries(r) /\ N(r) >= 0
RetriesConsumed(r) == N(r) - Closure(r).retries_remaining

\* As stated: the equality at every moment.
C19_AttemptsAlwaysOnePlusConsumed ==
    \A r \in Runs :
        FreshClosureRun(r) =>
            /\ attempts[r] <= N(r) + 1
            /\ attempts[r] = 1 + RetriesConsumed(r)

\* Amended: the timer callback counts the retry down before the then
\* callback calls the subject again, so while a proceed signal is under way
\* the attempts made equal the retries consumed; at every other moment they
\* are one more.
ProceedUnderWay(r) == dec[r] = "proceed"

C19_FreshClosureRunEndsWithinBudget ==
    /\ [](\A r \in Runs :
            FreshClosureRun(r) =>
                /\ attempts[r] <= N(r) + 1
                /\ attempts[r] = (IF ProceedUnderWay(r) THEN 0 ELSE 1)
                                     + RetriesConsumed(r))
    /\ \A r \in Runs :
          (FreshClosureRun(r) /\ pc[r] \in {"Attempting", "AwaitingDecision"})
              ~> (pc[r] \in {"Succeeded", "Failed"})

\* A fresh closure of N = 2 has been used up: three attempts, all rejected,
\* and the call has failed.
C19_Witness ==
    \E r \in Runs :
        /\ FreshClosureRun(r) /\ N(r) = 2
        /\ pc[r] = "Failed" /\ attempts[r] = 3 /\ rejections[r] = 3
        /\ Closure(r).retries_remaining = 0

====
